---- MODULE Spec2Model ----
(***************************************************************************)
(* Shortest-path engines of graph-algorithms-rs: Bellman-Ford, Dijkstra    *)
(* and Floyd-Warshall, their builder methods and the shared run contract.  *)
(* An engine is constructed by new(), extended by its builder methods and  *)
(* queried by run; every run is a pure computation over the built graph.   *)
(***************************************************************************)
EXTENDS Integers, Sequences, FiniteSets, TLC

VARIABLES engine, bf, dj, fw, bfOut, djOut, fwOut, rerun, djLoop

\* bfOut, djOut, fwOut: the argument and the return value of the last run
\* call since the last builder call. rerun: that call repeated the call
\* before it (same start, no builder call in between).
\* djLoop: the locals of a Dijkstra run in progress, in the specification
\* that takes the run one loop step at a time.
vars == <<engine, bf, dj, fw, bfOut, djOut, fwOut, rerun, djLoop>>

----------------------------------------------------------------------------
\* Bounds of the model.

\* Largest number of edges stored in one engine.
MaxEdges == 2

\* Node indices handed to the builders.
Nodes == 0 .. 2

\* The first index above every node index of the model.
BeyondNodes == Cardinality(Nodes)

\* Weights handed to add_edge / set_edge (i32) and to set_node (usize).
SignedWeights == {-1, 1}

UnsignedWeights == {0, 1}

----------------------------------------------------------------------------
\* Shared contract (lib.rs).

\* i32::MAX, the "unreachable" sentinel of Bellman-Ford and Floyd-Warshall.
I32_MAX == 2147483647

I32_MIN == -I32_MAX - 1

\* Option<Node>: None is the empty sequence, Some(s) is <<s>>.
None == << >>

Some(s) == <<s>>

MissingStartNode == "MissingStartNode"

NegativeWeightCycle == "NegativeWeightCycle"

\* Outcomes of run: Ok(value), Err(GraphError) or a panic (uncontrolled abort).
\* reads counts the graph elements the call has looked at.
Ok(value, reads) == [kind |-> "Ok", value |-> value, reads |-> reads]

Err(error, reads) == [kind |-> "Err", error |-> error, reads |-> reads]

Panic(why, reads) == [kind |-> "Panic", why |-> why, reads |-> reads]

\* start.ok_or(GraphError::MissingStartNode)
ok_or_MutDefault(start) ==
    IF start = None THEN [some |-> TRUE, node |-> 0]
    ELSE [some |-> TRUE, node |-> start[1]]

ok_or(start) ==
    IF start = None THEN [some |-> FALSE, node |-> 0]
    ELSE [some |-> TRUE, node |-> start[1]]

Max(a, b) == IF a >= b THEN a ELSE b

Min(a, b) == IF a <= b THEN a ELSE b

\* i32 addition overflows (panics under overflow checks) outside the range.
AddOverflowsI32(a, b) ==
    \/ b > 0 /\ a > I32_MAX - b
    \/ b < 0 /\ a < I32_MIN - b

----------------------------------------------------------------------------
\* Bellman-Ford engine (bellman_ford.rs).

Edge(source, destination, weight) ==
    [source |-> source, destination |-> destination, weight |-> weight]

BellmanFord_new == [total_vertices |-> 0, edges |-> << >>]

\* The for loop of add_edge, from the i-th (destination, weight) pair on.
RECURSIVE add_edge_loop(_, _, _, _)
add_edge_loop(g, source, edges, i) ==
    IF i > Len(edges) THEN g
    ELSE add_edge_loop(
           [total_vertices |->
               Max(Max(g.total_vertices, source + 1), edges[i][1] + 1),
            edges |-> Append(g.edges, Edge(source, edges[i][1], edges[i][2]))],
           source, edges, i + 1)

add_edge(g, source, edges) ==
    IF edges = << >>
    THEN [g EXCEPT !.total_vertices = Max(g.total_vertices, source + 1)]
    ELSE add_edge_loop(g, source, edges, 1)

RECURSIVE add_edges(_, _)
add_edges(g, nodes) ==
    IF nodes = << >> THEN g
    ELSE add_edges(add_edge(g, nodes[1][1], nodes[1][2]), Tail(nodes))

\* distances of the run: a function on 0 .. total_vertices - 1.
BfInitDistances(n) == [v \in 0 .. n - 1 |-> I32_MAX]

\* BfRelax that forgets to set is_distance_updated.
BfRelax_MutNoFlag(st, edge) ==
    IF st.panic # "" THEN st
    ELSE IF edge.source \notin DOMAIN st.distances
    THEN [st EXCEPT !.panic = "index out of bounds", !.reads = @ + 1]
    ELSE IF st.distances[edge.source] = I32_MAX
    THEN [st EXCEPT !.reads = @ + 1]
    ELSE IF edge.destination \notin DOMAIN st.distances
    THEN [st EXCEPT !.panic = "index out of bounds", !.reads = @ + 1]
    ELSE LET new_distance == st.distances[edge.source] + edge.weight IN
         IF new_distance < st.distances[edge.destination]
         THEN [st EXCEPT !.distances[edge.destination] = new_distance,
                         !.reads = @ + 1]
         ELSE [st EXCEPT !.reads = @ + 1]

\* One visit of an edge in a relaxation round: st is
\* [distances, updated, panic, reads].
BfRelax(st, edge) ==
    IF st.panic # "" THEN st
    ELSE IF edge.source \notin DOMAIN st.distances
    THEN [st EXCEPT !.panic = "index out of bounds", !.reads = @ + 1]
    ELSE IF st.distances[edge.source] = I32_MAX
    THEN [st EXCEPT !.reads = @ + 1]
    ELSE IF AddOverflowsI32(st.distances[edge.source], edge.weight)
    THEN [st EXCEPT !.panic = "attempt to add with overflow", !.reads = @ + 1]
    ELSE IF edge.destination \notin DOMAIN st.distances
    THEN [st EXCEPT !.panic = "index out of bounds", !.reads = @ + 1]
    ELSE LET new_distance == st.distances[edge.source] + edge.weight IN
         IF new_distance < st.distances[edge.destination]
         THEN [st EXCEPT !.distances[edge.destination] = new_distance,
                         !.updated = TRUE, !.reads = @ + 1]
         ELSE [st EXCEPT !.reads = @ + 1]

\* for edge in &self.edges of one round, from the i-th edge on.
RECURSIVE BfRound(_, _, _)
BfRound(edges, st, i) ==
    IF i > Len(edges) THEN st
    ELSE BfRound(edges, BfRelax(st, edges[i]), i + 1)

\* Whether a round without update ends the rounds (the break of the loop).
BfEarlyExit == TRUE

\* BfRounds whose break tests the flag the wrong way round: it stops after
\* the first round that updated a distance.
RECURSIVE BfRounds_MutExitOnUpdate(_, _, _)
BfRounds_MutExitOnUpdate(edges, st, rounds) ==
    IF rounds = 0 \/ st.panic # "" THEN st
    ELSE LET after == BfRound(edges, [st EXCEPT !.updated = FALSE], 1) IN
         IF after.updated THEN after
         ELSE BfRounds_MutExitOnUpdate(edges, after, rounds - 1)

\* for _ in 0..self.total_vertices - 1, with rounds left to run.
RECURSIVE BfRounds(_, _, _)
BfRounds(edges, st, rounds) ==
    IF rounds = 0 \/ st.panic # "" THEN st
    ELSE LET after == BfRound(edges, [st EXCEPT !.updated = FALSE], 1) IN
         IF BfEarlyExit /\ ~after.updated THEN after
         ELSE BfRounds(edges, after, rounds - 1)

\* BfCheckRelax that compares with <= instead of <.
BfCheckRelax_MutNonStrict(st, edge) ==
    IF st.panic # "" \/ st.updated THEN st
    ELSE IF edge.source \notin DOMAIN st.distances
    THEN [st EXCEPT !.panic = "index out of bounds", !.reads = @ + 1]
    ELSE IF st.distances[edge.source] = I32_MAX
    THEN [st EXCEPT !.reads = @ + 1]
    ELSE IF edge.destination \notin DOMAIN st.distances
    THEN [st EXCEPT !.panic = "index out of bounds", !.reads = @ + 1]
    ELSE IF st.distances[edge.source] + edge.weight
              <= st.distances[edge.destination]
    THEN [st EXCEPT !.updated = TRUE, !.reads = @ + 1]
    ELSE [st EXCEPT !.reads = @ + 1]

\* The final pass: st.updated becomes TRUE at the first edge that still relaxes.
BfCheckRelax(st, edge) ==
    IF st.panic # "" \/ st.updated THEN st
    ELSE IF edge.source \notin DOMAIN st.distances
    THEN [st EXCEPT !.panic = "index out of bounds", !.reads = @ + 1]
    ELSE IF st.distances[edge.source] = I32_MAX
    THEN [st EXCEPT !.reads = @ + 1]
    ELSE IF AddOverflowsI32(st.distances[edge.source], edge.weight)
    THEN [st EXCEPT !.panic = "attempt to add with overflow", !.reads = @ + 1]
    ELSE IF edge.destination \notin DOMAIN st.distances
    THEN [st EXCEPT !.panic = "index out of bounds", !.reads = @ + 1]
    ELSE IF st.distances[edge.source] + edge.weight
              < st.distances[edge.destination]
    THEN [st EXCEPT !.updated = TRUE, !.reads = @ + 1]
    ELSE [st EXCEPT !.reads = @ + 1]

\* BfCheck that leaves the final pass out.
BfCheck_MutSkipped(edges, st, i) == st

RECURSIVE BfCheck(_, _, _)
BfCheck(edges, st, i) ==
    IF i > Len(edges) THEN st
    ELSE BfCheck(edges, BfCheckRelax(st, edges[i]), i + 1)

\* `start as usize` of an isize: a negative start becomes a huge index,
\* which no vector of the run covers.
AsUsizeInRange(start, len) == start >= 0 /\ start < len

BellmanFord_run(g, start) ==
    LET s == ok_or(start) IN
    IF ~s.some THEN Err(MissingStartNode, 0)
    ELSE IF ~AsUsizeInRange(s.node, g.total_vertices)
    THEN Panic("index out of bounds", 0)
    ELSE IF g.total_vertices - 1 < 0
    THEN Panic("attempt to subtract with overflow", 0)
    ELSE
      LET init == [distances |->
                      [BfInitDistances(g.total_vertices) EXCEPT ![s.node] = 0],
                   updated |-> FALSE, panic |-> "", reads |-> 0]
          relaxed == BfRounds(g.edges, init, g.total_vertices - 1)
          checked == BfCheck(g.edges, [relaxed EXCEPT !.updated = FALSE], 1)
      IN  IF checked.panic # "" THEN Panic(checked.panic, checked.reads)
          ELSE IF checked.updated
          THEN Err(NegativeWeightCycle, checked.reads)
          ELSE Ok(checked.distances, checked.reads)

----------------------------------------------------------------------------
\* Dijkstra engine (dijkstra.rs).

\* usize::MAX, the "unreachable" sentinel of Dijkstra. TLC's integers are
\* 32 bits wide, so the model's usize ends where they end.
USIZE_MAX == 2147483647

AddOverflowsUsize(a, b) == a > USIZE_MAX - b

\* graph: HashMap<usize, Vec<(usize, usize)>>, a function on its keys.
Dijkstra_new == << >>

set_node(g, node, edges) ==
    [k \in DOMAIN g \cup {node} |-> IF k = node THEN edges ELSE g[k]]

RECURSIVE set_nodes(_, _)
set_nodes(g, nodes) ==
    IF nodes = << >> THEN g
    ELSE set_nodes(set_node(g, nodes[1][1], nodes[1][2]), Tail(nodes))

State(cost, position) == [cost |-> cost, position |-> position]

\* Ord for State: a is Greater than b (BinaryHeap pops the greatest).
StateGreater(a, b) ==
    \/ b.cost > a.cost
    \/ b.cost = a.cost /\ a.position > b.position

\* Index in the heap of the entry BinaryHeap::pop returns.
PopIndex(q) ==
    CHOOSE i \in 1 .. Len(q) :
        \A j \in 1 .. Len(q) : q[j] = q[i] \/ StateGreater(q[i], q[j])

RemoveAt(q, i) ==
    [j \in 1 .. Len(q) - 1 |-> IF j < i THEN q[j] ELSE q[j + 1]]

\* IsStale that compares with >= instead of >.
IsStale_MutNonStrict(distances, state) ==
    IF state.position \in DOMAIN distances
    THEN state.cost >= distances[state.position]
    ELSE FALSE

\* distances.get(&node).map(|&d| cost > d).unwrap_or(false)
IsStale(distances, state) ==
    IF state.position \in DOMAIN distances
    THEN state.cost > distances[state.position]
    ELSE FALSE

\* IsShorter that compares with <= instead of <.
IsShorter_MutNonStrict(distances, next) ==
    IF next.position \in DOMAIN distances
    THEN next.cost <= distances[next.position]
    ELSE TRUE

\* IsShorter that never improves a recorded distance.
IsShorter_MutUnknownOnly(distances, next) ==
    next.position \notin DOMAIN distances

\* distances.get(&neighbor).map(|&d| next.cost < d).unwrap_or(true)
IsShorter(distances, next) ==
    IF next.position \in DOMAIN distances
    THEN next.cost < distances[next.position]
    ELSE TRUE

HashMapInsert(m, k, v) ==
    [x \in DOMAIN m \cup {k} |-> IF x = k THEN v ELSE m[x]]

\* DjRelax that takes the edge's weight as the cost of the next state.
DjRelax_MutWeightOnly(st, state, pair) ==
    IF st.panic # "" THEN st
    ELSE LET next == State(pair[2], pair[1]) IN
         IF IsShorter(st.distances, next)
         THEN [st EXCEPT
                 !.distances = HashMapInsert(st.distances, next.position, next.cost),
                 !.priority_queue = Append(st.priority_queue, next)]
         ELSE st

\* One neighbour of the popped state: st is
\* [priority_queue, distances, panic, reads].
DjRelax(st, state, pair) ==
    IF st.panic # "" THEN st
    ELSE IF AddOverflowsUsize(state.cost, pair[2])
    THEN [st EXCEPT !.panic = "attempt to add with overflow"]
    ELSE LET next == State(state.cost + pair[2], pair[1]) IN
         IF IsShorter(st.distances, next)
         THEN [st EXCEPT
                 !.distances = HashMapInsert(st.distances, next.position, next.cost),
                 !.priority_queue = Append(st.priority_queue, next)]
         ELSE st

RECURSIVE DjNeighbors(_, _, _, _)
DjNeighbors(st, state, neighbors, i) ==
    IF i > Len(neighbors) THEN st
    ELSE DjNeighbors(DjRelax(st, state, neighbors[i]), state, neighbors, i + 1)

\* One iteration of while let Some(state) = priority_queue.pop().
DjStep(g, st) ==
    LET i == PopIndex(st.priority_queue)
        state == st.priority_queue[i]
        popped == [st EXCEPT !.priority_queue = RemoveAt(st.priority_queue, i)]
    IN  IF IsStale(st.distances, state) THEN popped
        ELSE IF state.position \in DOMAIN g
        THEN DjNeighbors([popped EXCEPT !.reads = @ + 1],
                         state, g[state.position], 1)
        ELSE [popped EXCEPT !.reads = @ + 1]

RECURSIVE DjLoop(_, _)
DjLoop(g, st) ==
    IF st.priority_queue = << >> \/ st.panic # "" THEN st
    ELSE DjLoop(g, DjStep(g, st))

\* DjResult sized by the largest registered key + 1.
DjResult_MutMaxKey(g, distances) ==
    [node \in 0 .. (IF DOMAIN g = {} THEN 0
                    ELSE (CHOOSE k \in DOMAIN g : \A x \in DOMAIN g : x <= k) + 1) - 1 |->
        IF node \in DOMAIN distances THEN distances[node] ELSE USIZE_MAX]

\* Convert the distances to a vector of graph.len() entries.
DjResult(g, distances) ==
    [node \in 0 .. Cardinality(DOMAIN g) - 1 |->
        IF node \in DOMAIN distances THEN distances[node] ELSE USIZE_MAX]

Dijkstra_run(g, start) ==
    LET s == ok_or(start) IN
    IF ~s.some THEN Err(MissingStartNode, 0)
    ELSE
      LET init == [priority_queue |-> <<State(0, s.node)>>,
                   distances |-> HashMapInsert(<< >>, s.node, 0),
                   panic |-> "", reads |-> 0]
          done == DjLoop(g, init)
      IN  IF done.panic # "" THEN Panic(done.panic, done.reads)
          ELSE Ok(DjResult(g, done.distances), done.reads)

----------------------------------------------------------------------------
\* Floyd-Warshall engine (floyd_warshall.rs).

FloydWarshall_new == [total_nodes |-> 0, edges |-> << >>]

set_edge(g, source, target, weight) ==
    [total_nodes |-> Max(Max(g.total_nodes, source + 1), target + 1),
     edges |-> Append(g.edges, <<source, target, weight>>)]

\* The inner loop of set_edges over one node's (target, weight) pairs.
RECURSIVE set_edges_of(_, _, _)
set_edges_of(g, source, edges) ==
    IF edges = << >> THEN g
    ELSE set_edges_of(set_edge(g, source, edges[1][1], edges[1][2]),
                      source, Tail(edges))

RECURSIVE set_edges(_, _)
set_edges(g, nodes) ==
    IF nodes = << >> THEN g
    ELSE set_edges(set_edges_of(g, nodes[1][1], nodes[1][2]), Tail(nodes))

\* set_total_nodes that assigns the argument.
set_total_nodes_MutAssign(g, total) ==
    [g EXCEPT !.total_nodes = total]

set_total_nodes(g, total) ==
    [g EXCEPT !.total_nodes = Max(g.total_nodes, total)]

\* for &(u, v, w) in &self.edges { distances[u][v] = w; }, from edge i on;
\* st is [distances, panic, reads].
RECURSIVE FwLoadEdges(_, _, _)
FwLoadEdges(edges, st, i) ==
    IF i > Len(edges) \/ st.panic # "" THEN st
    ELSE LET u == edges[i][1]
             v == edges[i][2]
             w == edges[i][3]
         IN  IF u \notin DOMAIN st.distances \/ v \notin DOMAIN st.distances
             THEN [st EXCEPT !.panic = "index out of bounds", !.reads = @ + 1]
             ELSE FwLoadEdges(edges,
                              [st EXCEPT !.distances[u][v] = w, !.reads = @ + 1],
                              i + 1)

\* row[v] = 0 for every row of the matrix.
FwZeroDiagonal(distances) ==
    [u \in DOMAIN distances |-> [distances[u] EXCEPT ![u] = 0]]

\* FwCell that tests only distances[i][k] against the sentinel.
FwCell_MutOneGuard(st, k, i, j) ==
    IF st.distances[i][k] # I32_MAX
    THEN IF AddOverflowsI32(st.distances[i][k], st.distances[k][j])
         THEN [st EXCEPT !.panic = "attempt to add with overflow"]
         ELSE [st EXCEPT !.distances[i][j] =
                  Min(st.distances[i][j], st.distances[i][k] + st.distances[k][j])]
    ELSE st

\* The body of the triple loop for one (k, i, j).
FwCell(st, k, i, j) ==
    IF st.distances[i][k] # I32_MAX /\ st.distances[k][j] # I32_MAX
    THEN IF AddOverflowsI32(st.distances[i][k], st.distances[k][j])
         THEN [st EXCEPT !.panic = "attempt to add with overflow"]
         ELSE [st EXCEPT !.distances[i][j] =
                  Min(st.distances[i][j], st.distances[i][k] + st.distances[k][j])]
    ELSE st

\* for k, for i, for j over 0..total_nodes, from (k, i, j) on.
RECURSIVE FwLoop(_, _, _, _, _)
FwLoop(st, n, k, i, j) ==
    IF k >= n \/ st.panic # "" THEN st
    ELSE IF i >= n THEN FwLoop(st, n, k + 1, 0, 0)
    ELSE IF j >= n THEN FwLoop(st, n, k, i + 1, 0)
    ELSE FwLoop(FwCell(st, k, i, j), n, k, i, j + 1)

FloydWarshall_run(g, start) ==
    LET n == g.total_nodes
        init == [distances |-> [u \in 0 .. n - 1 |-> [v \in 0 .. n - 1 |-> I32_MAX]],
                 panic |-> "", reads |-> 0]
        loaded == FwLoadEdges(g.edges, init, 1)
    IN  IF loaded.panic # "" THEN Panic(loaded.panic, loaded.reads)
        ELSE LET done == FwLoop([loaded EXCEPT
                                   !.distances = FwZeroDiagonal(loaded.distances)],
                                n, 0, 0, 0)
             IN  IF done.panic # "" THEN Panic(done.panic, done.reads)
                 ELSE Ok(done.distances, done.reads)

----------------------------------------------------------------------------
\* Inputs of the builders.

\* Vec<(usize, i32)> of at most k pairs.
PairLists(weights, k) ==
    UNION {[1 .. n -> Nodes \X weights] : n \in 0 .. k}

\* Vec<(usize, Vec<(usize, i32)>)> with at most k pairs in all: one entry, or
\* two entries of at most one pair each.
NodeLists(weights, k) ==
    {<< >>}
    \cup {<<a>> : a \in Nodes \X PairLists(weights, k)}
    \cup UNION {{<<a, b>> :
                    b \in Nodes \X PairLists(weights, Min(k - Len(a[2]), 1))} :
                  a \in Nodes \X PairLists(weights, Min(k, 1))}

NoRun == [start |-> None, res |-> [kind |-> "NoRun"]]

\* No Dijkstra run is in progress.
NotRunning == [pc |-> "idle"]

\* The call run(start) repeats the call that out records.
Repeats(out, start) == out.res.kind # "NoRun" /\ out.start = start

BfStarts == {None} \cup {Some(s) : s \in -1 .. BeyondNodes}

----------------------------------------------------------------------------
\* Actions.

BfAddEdge ==
    /\ engine = "BellmanFord"
    /\ \E source \in Nodes :
         \E edges \in PairLists(SignedWeights, MaxEdges - Len(bf.edges)) :
            bf' = add_edge(bf, source, edges)
    /\ bfOut' = NoRun
    /\ rerun' = FALSE
    /\ UNCHANGED <<engine, djLoop, dj, fw, djOut, fwOut>>

BfAddEdges ==
    /\ engine = "BellmanFord"
    /\ \E nodes \in NodeLists(SignedWeights, MaxEdges - Len(bf.edges)) :
            bf' = add_edges(bf, nodes)
    /\ bfOut' = NoRun
    /\ rerun' = FALSE
    /\ UNCHANGED <<engine, djLoop, dj, fw, djOut, fwOut>>

BfRun ==
    /\ engine = "BellmanFord"
    /\ \E start \in BfStarts :
         /\ bfOut' = [start |-> start, res |-> BellmanFord_run(bf, start)]
         /\ rerun' = Repeats(bfOut, start)
    /\ UNCHANGED <<engine, djLoop, bf, dj, fw, djOut, fwOut>>

\* Edges stored in the Dijkstra graph, over all keys.
RECURSIVE DjEdgeCount(_, _)
DjEdgeCount(g, keys) ==
    IF keys = {} THEN 0
    ELSE LET k == CHOOSE x \in keys : TRUE IN
         Len(g[k]) + DjEdgeCount(g, keys \ {k})

\* Room left for the pairs of one more set_node(node, ...) call.
DjRoom(g, node) ==
    MaxEdges - DjEdgeCount(g, DOMAIN g \ {node})

DjSetNode ==
    /\ engine = "Dijkstra"
    /\ \E node \in Nodes :
         \E edges \in PairLists(UnsignedWeights, DjRoom(dj, node)) :
            dj' = set_node(dj, node, edges)
    /\ djOut' = NoRun
    /\ rerun' = FALSE
    /\ UNCHANGED <<engine, djLoop, bf, fw, bfOut, fwOut>>

DjSetNodes ==
    /\ engine = "Dijkstra"
    /\ \E nodes \in NodeLists(UnsignedWeights, MaxEdges - DjEdgeCount(dj, DOMAIN dj)) :
            dj' = set_nodes(dj, nodes)
    /\ djOut' = NoRun
    /\ rerun' = FALSE
    /\ UNCHANGED <<engine, djLoop, bf, fw, bfOut, fwOut>>

DjStarts == {None} \cup {Some(s) : s \in 0 .. BeyondNodes}

\* DjRun whose run registers the start node in the graph before it searches.
DjRun_MutRegistersStart ==
    /\ engine = "Dijkstra"
    /\ \E start \in DjStarts :
         /\ dj' = IF start = None \/ start[1] \in DOMAIN dj THEN dj
                  ELSE set_node(dj, start[1], << >>)
         /\ djOut' = [start |-> start, res |-> Dijkstra_run(dj, start)]
         /\ rerun' = Repeats(djOut, start)
    /\ UNCHANGED <<engine, djLoop, bf, fw, bfOut, fwOut>>

DjRun ==
    /\ engine = "Dijkstra"
    /\ \E start \in DjStarts :
         /\ djOut' = [start |-> start, res |-> Dijkstra_run(dj, start)]
         /\ rerun' = Repeats(djOut, start)
    /\ UNCHANGED <<engine, djLoop, bf, dj, fw, bfOut, fwOut>>

FwSetEdge ==
    /\ engine = "FloydWarshall"
    /\ Len(fw.edges) < MaxEdges
    /\ \E source \in Nodes, target \in Nodes, weight \in SignedWeights :
            fw' = set_edge(fw, source, target, weight)
    /\ fwOut' = NoRun
    /\ rerun' = FALSE
    /\ UNCHANGED <<engine, djLoop, bf, dj, bfOut, djOut>>

FwSetEdges ==
    /\ engine = "FloydWarshall"
    /\ \E nodes \in NodeLists(SignedWeights, MaxEdges - Len(fw.edges)) :
            fw' = set_edges(fw, nodes)
    /\ fwOut' = NoRun
    /\ rerun' = FALSE
    /\ UNCHANGED <<engine, djLoop, bf, dj, bfOut, djOut>>

FwSetTotalNodes ==
    /\ engine = "FloydWarshall"
    /\ \E total \in 0 .. BeyondNodes :
            fw' = set_total_nodes(fw, total)
    /\ fwOut' = NoRun
    /\ rerun' = FALSE
    /\ UNCHANGED <<engine, djLoop, bf, dj, bfOut, djOut>>

FwStarts == {None, Some(0)}

FwRun ==
    /\ engine = "FloydWarshall"
    /\ \E start \in FwStarts :
         /\ fwOut' = [start |-> start, res |-> FloydWarshall_run(fw, start)]
         /\ rerun' = Repeats(fwOut, start)
    /\ UNCHANGED <<engine, djLoop, bf, dj, fw, bfOut, djOut>>

\* The state after construction: one engine, made by its new().
InitWith(engines) ==
    /\ engine \in engines
    /\ bf = BellmanFord_new
    /\ dj = Dijkstra_new
    /\ fw = FloydWarshall_new
    /\ bfOut = NoRun
    /\ djOut = NoRun
    /\ fwOut = NoRun
    /\ rerun = FALSE
    /\ djLoop = NotRunning

Init == InitWith({"BellmanFord", "Dijkstra", "FloydWarshall"})

NextBF ==
    \/ BfAddEdge
    \/ BfAddEdges
    \/ BfRun

NextDJ ==
    \/ DjSetNode
    \/ DjSetNodes
    \/ DjRun

NextFW ==
    \/ FwSetEdge
    \/ FwSetEdges
    \/ FwSetTotalNodes
    \/ FwRun

Next ==
    \/ BfAddEdge
    \/ BfAddEdges
    \/ BfRun
    \/ DjSetNode
    \/ DjSetNodes
    \/ DjRun
    \/ FwSetEdge
    \/ FwSetEdges
    \/ FwSetTotalNodes
    \/ FwRun

\* A caller that loads the same edges into a Dijkstra and a Bellman-Ford
\* engine: set_node(source, edges) on the one, add_edge(source, edges) on
\* the other.
LoadBoth ==
    /\ engine = "Pair"
    /\ \E source \in Nodes :
         \E edges \in PairLists(UnsignedWeights, MaxEdges - Len(bf.edges)) :
            /\ dj' = set_node(dj, source, edges)
            /\ bf' = add_edge(bf, source, edges)
    /\ bfOut' = NoRun
    /\ djOut' = NoRun
    /\ rerun' = FALSE
    /\ UNCHANGED <<engine, djLoop, fw, fwOut>>

\* The caller runs both engines from the same start.
RunBoth ==
    /\ engine = "Pair"
    /\ \E start \in DjStarts :
         /\ djOut' = [start |-> start, res |-> Dijkstra_run(dj, start)]
         /\ bfOut' = [start |-> start, res |-> BellmanFord_run(bf, start)]
         /\ rerun' = Repeats(djOut, start)
    /\ UNCHANGED <<engine, djLoop, bf, dj, fw, fwOut>>

NextPair ==
    \/ LoadBoth
    \/ RunBoth

\* A caller that builds a Bellman-Ford graph on the nodes 0 .. BeyondNodes,
\* one edge per add_edge call.
BfAddOneEdge ==
    /\ engine = "BellmanFordWide"
    /\ Len(bf.edges) < MaxEdges
    /\ \E source \in 0 .. BeyondNodes, destination \in 0 .. BeyondNodes,
          weight \in SignedWeights :
            bf' = add_edge(bf, source, <<<<destination, weight>>>>)
    /\ bfOut' = NoRun
    /\ rerun' = FALSE
    /\ UNCHANGED <<engine, djLoop, dj, fw, djOut, fwOut>>

\* That caller runs the engine from one of these nodes.
BfRunWide ==
    /\ engine = "BellmanFordWide"
    /\ \E start \in {Some(s) : s \in 0 .. BeyondNodes} :
         /\ bfOut' = [start |-> start, res |-> BellmanFord_run(bf, start)]
         /\ rerun' = Repeats(bfOut, start)
    /\ UNCHANGED <<engine, djLoop, bf, dj, fw, djOut, fwOut>>

NextWide ==
    \/ BfAddOneEdge
    \/ BfRunWide

\* A Dijkstra run taken one loop step at a time. djLoop holds the locals:
\* pc, start, st = [priority_queue, distances, panic, reads], and inside the
\* for loop the popped state and the index i of the next neighbour.

\* set_node on the engine, between two runs.
DjLoopSetNode ==
    /\ engine = "DijkstraLoop"
    /\ djLoop.pc = "idle"
    /\ \E node \in Nodes :
         \E edges \in PairLists(UnsignedWeights, DjRoom(dj, node)) :
            dj' = set_node(dj, node, edges)
    /\ djOut' = NoRun
    /\ UNCHANGED <<engine, bf, fw, bfOut, fwOut, rerun, djLoop>>

\* run(Some(start)) up to the while loop.
DjLoopCall ==
    /\ engine = "DijkstraLoop"
    /\ djLoop.pc = "idle"
    /\ \E start \in 0 .. BeyondNodes :
         djLoop' = [pc |-> "pop", start |-> Some(start),
                    st |-> [priority_queue |-> <<State(0, start)>>,
                            distances |-> HashMapInsert(<< >>, start, 0),
                            panic |-> "", reads |-> 0]]
    /\ djOut' = NoRun
    /\ UNCHANGED <<engine, bf, dj, fw, bfOut, fwOut, rerun>>

\* priority_queue.pop() returns a state: continue when it is stale, else
\* enter the for loop over its neighbours.
DjLoopPop ==
    /\ engine = "DijkstraLoop"
    /\ djLoop.pc = "pop"
    /\ djLoop.st.panic = ""
    /\ djLoop.st.priority_queue # << >>
    /\ LET i == PopIndex(djLoop.st.priority_queue)
           state == djLoop.st.priority_queue[i]
           popped == [djLoop.st EXCEPT
                        !.priority_queue = RemoveAt(djLoop.st.priority_queue, i)]
       IN  djLoop' =
             IF IsStale(djLoop.st.distances, state)
             THEN [djLoop EXCEPT !.st = popped]
             ELSE IF state.position \in DOMAIN dj /\ dj[state.position] # << >>
             THEN [pc |-> "neighbors", start |-> djLoop.start,
                   st |-> [popped EXCEPT !.reads = @ + 1],
                   state |-> state, i |-> 1]
             ELSE [djLoop EXCEPT !.st = [popped EXCEPT !.reads = @ + 1]]
    /\ UNCHANGED <<engine, bf, dj, fw, bfOut, djOut, fwOut, rerun>>

\* One neighbour of the popped state in the for loop.
DjLoopNeighbor ==
    /\ engine = "DijkstraLoop"
    /\ djLoop.pc = "neighbors"
    /\ LET neighbors == dj[djLoop.state.position]
           st == DjRelax(djLoop.st, djLoop.state, neighbors[djLoop.i])
       IN  djLoop' =
             IF djLoop.i < Len(neighbors) /\ st.panic = ""
             THEN [djLoop EXCEPT !.st = st, !.i = @ + 1]
             ELSE [pc |-> "pop", start |-> djLoop.start, st |-> st]
    /\ UNCHANGED <<engine, bf, dj, fw, bfOut, djOut, fwOut, rerun>>

\* priority_queue.pop() returns None: convert the distances and return.
DjLoopReturn ==
    /\ engine = "DijkstraLoop"
    /\ djLoop.pc = "pop"
    /\ djLoop.st.priority_queue = << >> \/ djLoop.st.panic # ""
    /\ djOut' = [start |-> djLoop.start,
                 res |-> IF djLoop.st.panic # ""
                         THEN Panic(djLoop.st.panic, djLoop.st.reads)
                         ELSE Ok(DjResult(dj, djLoop.st.distances), djLoop.st.reads)]
    /\ djLoop' = NotRunning
    /\ UNCHANGED <<engine, bf, dj, fw, bfOut, fwOut, rerun>>

NextLoop ==
    \/ DjLoopSetNode
    \/ DjLoopCall
    \/ DjLoopPop
    \/ DjLoopNeighbor
    \/ DjLoopReturn

\* Any engine of the library.
Spec == Init /\ [][Next]_vars

\* A Bellman-Ford engine alone.
SpecBF == InitWith({"BellmanFord"}) /\ [][NextBF]_vars

\* A Bellman-Ford engine alone, on one more node and single edges.
SpecWide == InitWith({"BellmanFordWide"}) /\ [][NextWide]_vars

\* A Dijkstra engine alone.
SpecDJ == InitWith({"Dijkstra"}) /\ [][NextDJ]_vars

\* A Dijkstra engine alone, its run one loop step at a time. run is
\* sequential code: once called it keeps taking its next step.
SpecLoop ==
    /\ InitWith({"DijkstraLoop"})
    /\ [][NextLoop]_vars
    /\ WF_vars(DjLoopPop)
    /\ WF_vars(DjLoopNeighbor)
    /\ WF_vars(DjLoopReturn)

\* A Floyd-Warshall engine alone.
SpecFW == InitWith({"FloydWarshall"}) /\ [][NextFW]_vars

\* A Dijkstra and a Bellman-Ford engine loaded with the same calls.
SpecPair == InitWith({"Pair"}) /\ [][NextPair]_vars

----------------------------------------------------------------------------
\* Shortest paths by definition, for stating the claims: E is a set of
\* <<source, destination, weight>> triples over the nodes N.

BfEdgeSet(g) ==
    {<<g.edges[i].source, g.edges[i].destination, g.edges[i].weight>> :
        i \in 1 .. Len(g.edges)}

DjEdgeSet(g) ==
    UNION {{<<k, g[k][i][1], g[k][i][2]>> : i \in 1 .. Len(g[k])} : k \in DOMAIN g}

FwEdgeSet(g) == {g.edges[i] : i \in 1 .. Len(g.edges)}

\* WalkWeights(E, N, k)[u, v]: the total weights of the walks from u to v
\* that have at most k edges (the empty walk from u to u weighs 0).
RECURSIVE WalkWeights(_, _, _)
WalkWeights(E, N, k) ==
    IF k = 0 THEN [u \in N, v \in N |-> IF u = v THEN {0} ELSE {}]
    ELSE LET shorter == WalkWeights(E, N, k - 1) IN
         [u \in N, v \in N |->
            shorter[u, v]
            \cup UNION {{d + e[3] : d \in shorter[u, e[1]]} :
                          e \in {x \in E : x[2] = v}}]

\* Every simple path has at most Cardinality(N) - 1 edges; where no negative
\* cycle is involved, no walk weighs less than the lightest simple path.
PathWeights(E, N) == WalkWeights(E, N, Max(Cardinality(N) - 1, 0))

SetMin(S) == CHOOSE x \in S : \A y \in S : x <= y

HasPath(E, N, u, v) == PathWeights(E, N)[u, v] # {}

\* The total weights of the simple paths from u to v whose nodes after u
\* are all in allowed.
RECURSIVE SimplePathWeights(_, _, _, _)
SimplePathWeights(E, u, v, allowed) ==
    IF u = v THEN {0}
    ELSE UNION {{e[3] + d :
                    d \in SimplePathWeights(E, e[2], v, allowed \ {e[2]})} :
                  e \in {x \in E : x[1] = u /\ x[2] \in allowed}}

\* The total weights of the cycles through c: an edge out of c, then a simple
\* path back to c (a self-loop is a cycle of one edge).
CycleWeights(E, N, c) ==
    UNION {{e[3] + d : d \in SimplePathWeights(E, e[2], c, N \ {e[2]})} :
             e \in {x \in E : x[1] = c}}

\* c lies on a cycle of negative total weight.
OnNegativeCycle(E, N, c) == \E w \in CycleWeights(E, N, c) : w < 0

NegativeCycleReachable(E, N, s) ==
    \E c \in N : HasPath(E, N, s, c) /\ OnNegativeCycle(E, N, c)

BfNodes == 0 .. bf.total_vertices - 1

\* The last call was run(Some(s)) on the Bellman-Ford engine, s a vertex.
BfRanFromVertex ==
    /\ bfOut.res.kind # "NoRun"
    /\ bfOut.start # None
    /\ bfOut.start[1] \in BfNodes

----------------------------------------------------------------------------
\* Claims.

\* C1: on Bellman-Ford and on Dijkstra, run(None) returns
\* Err(MissingStartNode) whatever the graph holds, with no distance computed
\* and no graph element read.
C1_MissingStartNode ==
    /\ (bfOut.res.kind # "NoRun" /\ bfOut.start = None)
          => bfOut.res = Err(MissingStartNode, 0)
    /\ (djOut.res.kind # "NoRun" /\ djOut.start = None)
          => djOut.res = Err(MissingStartNode, 0)

C1_Witness ==
    /\ djOut.res.kind = "Err"
    /\ djOut.start = None
    /\ dj = Dijkstra_new

\* C2: run of every engine, on every graph made by the builders and for
\* every start argument, ends with Ok or Err, never with a panic.
C2_NeverAborts ==
    /\ bfOut.res.kind \in {"NoRun", "Ok", "Err"}
    /\ djOut.res.kind \in {"NoRun", "Ok", "Err"}
    /\ fwOut.res.kind \in {"NoRun", "Ok", "Err"}

\* C3: Bellman-Ford's run from a vertex s returns Err(NegativeWeightCycle)
\* exactly when a cycle of negative total weight is reachable from s.
C3_NegativeCycleIff ==
    BfRanFromVertex =>
        ((bfOut.res.kind = "Err" /\ bfOut.res.error = NegativeWeightCycle)
            <=> NegativeCycleReachable(BfEdgeSet(bf), BfNodes, bfOut.start[1]))

\* A negative cycle that the start does not reach, and a run that succeeds.
C3_Witness ==
    /\ BfRanFromVertex
    /\ bfOut.res.kind = "Ok"
    /\ \E c \in BfNodes : OnNegativeCycle(BfEdgeSet(bf), BfNodes, c)

\* C4: with no negative cycle reachable from the vertex s, Bellman-Ford's
\* run returns Ok(d), d[v] the least total weight of the paths from s to v,
\* and d[v] = i32::MAX exactly when there is no path.
C4_ShortestDistances ==
    (/\ BfRanFromVertex
     /\ ~NegativeCycleReachable(BfEdgeSet(bf), BfNodes, bfOut.start[1]))
    => /\ bfOut.res.kind = "Ok"
       /\ DOMAIN bfOut.res.value = BfNodes
       /\ \A v \in BfNodes :
            LET ws == PathWeights(BfEdgeSet(bf), BfNodes)[bfOut.start[1], v] IN
            IF ws = {} THEN bfOut.res.value[v] = I32_MAX
            ELSE /\ bfOut.res.value[v] = SetMin(ws)
                 /\ bfOut.res.value[v] # I32_MAX

\* A distance reached over two edges, one of them negative.
C4_Witness ==
    /\ BfRanFromVertex
    /\ bfOut.res.kind = "Ok"
    /\ \E v \in BfNodes : bfOut.res.value[v] < 0

DjNodes == 0 .. Cardinality(DOMAIN dj) - 1

\* The registered keys are exactly 0 .. n-1 and every edge target is one.
DjWellFormed ==
    /\ DOMAIN dj = DjNodes
    /\ \A e \in DjEdgeSet(dj) : e[2] \in DOMAIN dj

\* C5: on a Dijkstra graph whose keys are exactly 0 .. n-1 and whose edge
\* targets are all registered, run(Some(s)) with s < n returns a vector d of
\* length n, d[v] the least total weight of the paths from s to v and
\* usize::MAX when there is none.
C5_DijkstraShortest ==
    (/\ djOut.res.kind # "NoRun"
     /\ djOut.start # None
     /\ DjWellFormed
     /\ djOut.start[1] \in DjNodes)
    => /\ djOut.res.kind = "Ok"
       /\ DOMAIN djOut.res.value = DjNodes
       /\ \A v \in DjNodes :
            LET ws == PathWeights(DjEdgeSet(dj), DjNodes)[djOut.start[1], v] IN
            djOut.res.value[v] = IF ws = {} THEN USIZE_MAX ELSE SetMin(ws)

\* Two edges of different weight between the same pair of nodes.
C5_Witness ==
    /\ djOut.res.kind = "Ok"
    /\ djOut.start # None
    /\ DjWellFormed
    /\ djOut.start[1] \in DjNodes
    /\ \E e \in DjEdgeSet(dj), f \in DjEdgeSet(dj) :
          /\ e[1] = djOut.start[1] /\ f[1] = e[1] /\ f[2] = e[2]
          /\ e[2] # e[1] /\ e[3] < f[3]
          /\ djOut.res.value[e[2]] = e[3]

FwNodes == 0 .. fw.total_nodes - 1

\* C6: on a Floyd-Warshall graph without negative cycle, run returns a matrix
\* m with m[i][j] the least total weight of the paths from i to j, and
\* i32::MAX when there is none, also when several edges were added for the
\* same ordered pair.
C6_AllPairsShortest ==
    (/\ fwOut.res.kind # "NoRun"
     /\ \A c \in FwNodes : ~OnNegativeCycle(FwEdgeSet(fw), FwNodes, c))
    => /\ fwOut.res.kind = "Ok"
       /\ \A i \in FwNodes, j \in FwNodes :
            LET ws == PathWeights(FwEdgeSet(fw), FwNodes)[i, j] IN
            fwOut.res.value[i][j] = IF ws = {} THEN I32_MAX ELSE SetMin(ws)

\* C7: Floyd-Warshall's run returns Ok also on a graph with a negative cycle
\* (a negative self-loop included), and the diagonal entry m[v][v] is
\* negative exactly for the nodes v that lie on a negative cycle.
C7_NegativeDiagonal ==
    fwOut.res.kind # "NoRun"
    => /\ fwOut.res.kind = "Ok"
       /\ \A v \in FwNodes :
            OnNegativeCycle(FwEdgeSet(fw), FwNodes, v)
               <=> fwOut.res.value[v][v] < 0

\* The last call was a successful run(Some(s)).
BfOkFrom == bfOut.res.kind = "Ok" /\ bfOut.start # None

DjOkFrom == djOut.res.kind = "Ok" /\ djOut.start # None

\* C8 as stated: after a successful single-source run from s, the returned
\* vector has an entry at index s, and it is 0.
C8_StartIsZero ==
    /\ BfOkFrom => /\ bfOut.start[1] \in DOMAIN bfOut.res.value
                   /\ bfOut.res.value[bfOut.start[1]] = 0
    /\ DjOkFrom => /\ djOut.start[1] \in DOMAIN djOut.res.value
                   /\ djOut.res.value[djOut.start[1]] = 0

\* C8 amended: the entry at index s is 0 whenever the vector has one;
\* Bellman-Ford's always has one, Dijkstra's has one exactly when s is below
\* the number of registered keys.
C8_StartIsZeroWhenPresent ==
    /\ BfOkFrom => /\ bfOut.start[1] \in DOMAIN bfOut.res.value
                   /\ bfOut.res.value[bfOut.start[1]] = 0
    /\ DjOkFrom => /\ djOut.start[1] \in DOMAIN djOut.res.value
                        <=> djOut.start[1] < Cardinality(DOMAIN dj)
                   /\ djOut.start[1] \in DOMAIN djOut.res.value
                        => djOut.res.value[djOut.start[1]] = 0

\* A successful Bellman-Ford run from a node that lies on a cycle.
C8_Witness ==
    /\ BfOkFrom
    /\ CycleWeights(BfEdgeSet(bf), BfNodes, bfOut.start[1]) # {}
    /\ bfOut.res.value[bfOut.start[1]] = 0

\* C9 as stated: after a successful run of Dijkstra or Bellman-Ford, every
\* stored edge (u, v, w) whose source has a distance other than the sentinel
\* has an entry for v with distance[v] <= distance[u] + w.
C9_TriangleInequality ==
    /\ BfOkFrom =>
         \A e \in BfEdgeSet(bf) :
            (e[1] \in DOMAIN bfOut.res.value /\ bfOut.res.value[e[1]] # I32_MAX)
            => /\ e[2] \in DOMAIN bfOut.res.value
               /\ bfOut.res.value[e[2]] <= bfOut.res.value[e[1]] + e[3]
    /\ DjOkFrom =>
         \A e \in DjEdgeSet(dj) :
            (e[1] \in DOMAIN djOut.res.value /\ djOut.res.value[e[1]] # USIZE_MAX)
            => /\ e[2] \in DOMAIN djOut.res.value
               /\ djOut.res.value[e[2]] <= djOut.res.value[e[1]] + e[3]

\* C9 amended: the inequality holds for every stored edge whose two ends
\* have entries in the returned vector; Bellman-Ford's vector has an entry
\* for both ends of every stored edge.
C9_TriangleInequalityWhenPresent ==
    /\ BfOkFrom =>
         \A e \in BfEdgeSet(bf) :
            /\ e[1] \in DOMAIN bfOut.res.value
            /\ e[2] \in DOMAIN bfOut.res.value
            /\ bfOut.res.value[e[1]] # I32_MAX
                 => bfOut.res.value[e[2]] <= bfOut.res.value[e[1]] + e[3]
    /\ DjOkFrom =>
         \A e \in DjEdgeSet(dj) :
            (/\ e[1] \in DOMAIN djOut.res.value
             /\ djOut.res.value[e[1]] # USIZE_MAX
             /\ e[2] \in DOMAIN djOut.res.value)
            => djOut.res.value[e[2]] <= djOut.res.value[e[1]] + e[3]

\* A Dijkstra edge that is not on a shortest path: the inequality is strict.
C9_Witness ==
    /\ DjOkFrom
    /\ \E e \in DjEdgeSet(dj) :
          /\ e[1] \in DOMAIN djOut.res.value
          /\ e[2] \in DOMAIN djOut.res.value
          /\ e[1] # e[2]
          /\ djOut.res.value[e[1]] # USIZE_MAX
          /\ djOut.res.value[e[2]] < djOut.res.value[e[1]] + e[3]

\* Both engines hold the same edges and were run from the same vertex.
PairRanFromVertex ==
    /\ djOut.res.kind # "NoRun"
    /\ bfOut.res.kind # "NoRun"
    /\ djOut.start # None
    /\ djOut.start = bfOut.start
    /\ djOut.start[1] \in BfNodes
    /\ DjEdgeSet(dj) = BfEdgeSet(bf)

\* C10 as stated: with the same non-negative edges in both engines, the two
\* runs return the same finite distance for every node reachable from s.
C10_SameDistances ==
    PairRanFromVertex
    => /\ djOut.res.kind = "Ok"
       /\ bfOut.res.kind = "Ok"
       /\ \A v \in BfNodes :
            HasPath(BfEdgeSet(bf), BfNodes, bfOut.start[1], v)
            => /\ v \in DOMAIN djOut.res.value
               /\ djOut.res.value[v] # USIZE_MAX
               /\ djOut.res.value[v] = bfOut.res.value[v]

\* C10 amended: the two runs return the same finite distance for every
\* reachable node that Dijkstra's vector has an entry for, which are the
\* nodes below the number of registered keys.
C10_SameDistancesWhenPresent ==
    PairRanFromVertex
    => /\ djOut.res.kind = "Ok"
       /\ bfOut.res.kind = "Ok"
       /\ DOMAIN djOut.res.value = 0 .. Cardinality(DOMAIN dj) - 1
       /\ \A v \in BfNodes :
            HasPath(BfEdgeSet(bf), BfNodes, bfOut.start[1], v)
            => /\ bfOut.res.value[v] # I32_MAX
               /\ v \in DOMAIN djOut.res.value
                    => djOut.res.value[v] = bfOut.res.value[v]

\* A node two edges away from the start, with a distance in both vectors.
C10_Witness ==
    /\ PairRanFromVertex
    /\ djOut.res.kind = "Ok"
    /\ \E v \in DOMAIN djOut.res.value :
          /\ v \in BfNodes
          /\ ~\E e \in BfEdgeSet(bf) : e[1] = bfOut.start[1] /\ e[2] = v
          /\ v # bfOut.start[1]
          /\ djOut.res.value[v] = bfOut.res.value[v]
          /\ djOut.res.value[v] # USIZE_MAX

FwOk == fwOut.res.kind = "Ok"

\* The step is a call of run: it leaves a return value behind.
RunStep ==
    \/ bfOut'.res.kind # "NoRun"
    \/ djOut'.res.kind # "NoRun"
    \/ fwOut'.res.kind # "NoRun"

AllNodes == 0 .. BeyondNodes

\* C12: after a successful run, a node without path from the start (for
\* Floyd-Warshall a pair i # j without path from i to j) holds exactly the
\* sentinel: no weight was added to a sentinel distance.
C12_UnreachableIsSentinel ==
    /\ BfOkFrom =>
         \A v \in DOMAIN bfOut.res.value :
            ~HasPath(BfEdgeSet(bf), AllNodes, bfOut.start[1], v)
               => bfOut.res.value[v] = I32_MAX
    /\ DjOkFrom =>
         \A v \in DOMAIN djOut.res.value :
            ~HasPath(DjEdgeSet(dj), AllNodes, djOut.start[1], v)
               => djOut.res.value[v] = USIZE_MAX
    /\ FwOk =>
         \A i \in DOMAIN fwOut.res.value : \A j \in DOMAIN fwOut.res.value[i] :
            (i # j /\ ~HasPath(FwEdgeSet(fw), AllNodes, i, j))
               => fwOut.res.value[i][j] = I32_MAX

\* A Floyd-Warshall matrix with a negative distance into a node and no path
\* out of it.
C12_Witness ==
    /\ FwOk
    /\ \E i \in FwNodes, j \in FwNodes :
          /\ i # j
          /\ fwOut.res.value[i][j] < 0
          /\ fwOut.res.value[j][i] = I32_MAX
          /\ ~HasPath(FwEdgeSet(fw), AllNodes, j, i)

\* C13: the size of a successful result is the engine's node count:
\* Dijkstra's vector has one entry per registered key (so a reachable node at
\* or above that count has no entry), Bellman-Ford's has total_vertices
\* entries, Floyd-Warshall's matrix is total_nodes by total_nodes.
C13_ResultSize ==
    /\ djOut.res.kind = "Ok"
          => DOMAIN djOut.res.value = 0 .. Cardinality(DOMAIN dj) - 1
    /\ bfOut.res.kind = "Ok"
          => DOMAIN bfOut.res.value = 0 .. bf.total_vertices - 1
    /\ FwOk => /\ DOMAIN fwOut.res.value = 0 .. fw.total_nodes - 1
               /\ \A i \in DOMAIN fwOut.res.value :
                     DOMAIN fwOut.res.value[i] = 0 .. fw.total_nodes - 1

\* A node that the start reaches, at or above the number of registered keys,
\* below the largest key: it has no entry.
C13_Witness ==
    /\ DjOkFrom
    /\ \E v \in AllNodes :
          /\ HasPath(DjEdgeSet(dj), AllNodes, djOut.start[1], v)
          /\ v >= Cardinality(DOMAIN dj)
          /\ v \notin DOMAIN djOut.res.value
          /\ \E k \in DOMAIN dj : k > v

\* The node counter is above the source and the destination of every edge.
CounterCoversEdges ==
    /\ \A i \in 1 .. Len(bf.edges) :
          /\ bf.edges[i].source < bf.total_vertices
          /\ bf.edges[i].destination < bf.total_vertices
    /\ \A i \in 1 .. Len(fw.edges) :
          /\ fw.edges[i][1] < fw.total_nodes
          /\ fw.edges[i][2] < fw.total_nodes

\* add_edge(source, vec![]) in this state adds no edge and leaves
\* total_vertices at source + 1 or above.
EmptyAddEdgeRegisters ==
    \A source \in Nodes :
       LET g == add_edge(bf, source, << >>) IN
       /\ g.edges = bf.edges
       /\ g.total_vertices >= source + 1
       /\ g.total_vertices >= bf.total_vertices

\* set_total_nodes(n) with n below the count changes nothing in this state.
LowerTotalNodesIgnored ==
    \A n \in 0 .. fw.total_nodes - 1 : set_total_nodes(fw, n) = fw

\* No step lowers a node counter.
CounterNeverDecreases ==
    /\ bf'.total_vertices >= bf.total_vertices
    /\ fw'.total_nodes >= fw.total_nodes

\* C14: through every sequence of builder calls on Bellman-Ford and
\* Floyd-Warshall the node counter never decreases and stays above both
\* indices of every stored edge; add_edge with an empty list adds no edge and
\* raises total_vertices to source + 1 at least; set_total_nodes below the
\* count changes nothing.
C14_NodeCounter ==
    /\ [](CounterCoversEdges /\ EmptyAddEdgeRegisters /\ LowerTotalNodesIgnored)
    /\ [][CounterNeverDecreases]_vars

\* Counters above every edge index: a Bellman-Ford node that only an empty
\* add_edge registered, a Floyd-Warshall count that set_total_nodes raised.
C14_Witness ==
    \/ /\ bf.edges # << >>
       /\ \A i \in 1 .. Len(bf.edges) :
             /\ bf.edges[i].source + 1 < bf.total_vertices
             /\ bf.edges[i].destination + 1 < bf.total_vertices
    \/ /\ fw.edges # << >>
       /\ fw.total_nodes > BeyondNodes - 1
       /\ \A i \in 1 .. Len(fw.edges) :
             /\ fw.edges[i][1] + 1 < fw.total_nodes
             /\ fw.edges[i][2] + 1 < fw.total_nodes

\* The relaxation rounds without the break: all of them run.
RECURSIVE BfAllRounds(_, _, _)
BfAllRounds(edges, st, rounds) ==
    IF rounds = 0 \/ st.panic # "" THEN st
    ELSE BfAllRounds(edges, BfRound(edges, [st EXCEPT !.updated = FALSE], 1),
                     rounds - 1)

\* The run that performs all total_vertices - 1 rounds, then the final pass.
BfRunAllRounds(g, start) ==
    IF start = None THEN Err(MissingStartNode, 0)
    ELSE IF ~AsUsizeInRange(start[1], g.total_vertices)
    THEN Panic("index out of bounds", 0)
    ELSE
      LET init == [distances |->
                      [BfInitDistances(g.total_vertices) EXCEPT ![start[1]] = 0],
                   updated |-> FALSE, panic |-> "", reads |-> 0]
          relaxed == BfAllRounds(g.edges, init, g.total_vertices - 1)
          checked == BfCheck(g.edges, [relaxed EXCEPT !.updated = FALSE], 1)
      IN  IF checked.panic # "" THEN Panic(checked.panic, checked.reads)
          ELSE IF checked.updated THEN Err(NegativeWeightCycle, checked.reads)
          ELSE Ok(checked.distances, checked.reads)

\* What a run returns, without the count of the edges it read.
Outcome(res) == [res EXCEPT !.reads = 0]

\* C15: the run of Bellman-Ford, which stops at the first round without
\* update, returns what the run with all total_vertices - 1 rounds returns:
\* the same distances or the same error.
C15_EarlyExitSameOutcome ==
    bfOut.res.kind # "NoRun"
       => Outcome(bfOut.res) = Outcome(BfRunAllRounds(bf, bfOut.start))

\* A successful run that the break cut short after a round that lowered a
\* distance: it read fewer edges than the run with all rounds, which reads
\* every edge total_vertices times.
C15_Witness ==
    /\ bfOut.res.kind = "Ok"
    /\ \E v \in BfNodes : v # bfOut.start[1] /\ bfOut.res.value[v] < I32_MAX
    /\ bfOut.res.reads < bf.total_vertices * Len(bf.edges)
    /\ BfRunAllRounds(bf, bfOut.start).reads = bf.total_vertices * Len(bf.edges)

\* The step pushes an entry: it is the last of the queue after the step.
Pushes ==
    /\ djLoop.pc = "neighbors"
    /\ Len(djLoop'.st.priority_queue) > Len(djLoop.st.priority_queue)

Pushed == djLoop'.st.priority_queue[Len(djLoop'.st.priority_queue)]

\* An entry is pushed only when it lowers the recorded distance of its node
\* (or the node has none), and it becomes the recorded distance.
PushLowersDistance ==
    Pushes =>
       /\ Pushed.position \in DOMAIN djLoop.st.distances
             => Pushed.cost < djLoop.st.distances[Pushed.position]
       /\ djLoop'.st.distances[Pushed.position] = Pushed.cost

\* During a run no recorded distance is dropped or raised.
DistanceNeverIncreases ==
    (djLoop.pc # "idle" /\ djLoop'.pc # "idle") =>
       \A n \in DOMAIN djLoop.st.distances :
          /\ n \in DOMAIN djLoop'.st.distances
          /\ djLoop'.st.distances[n] <= djLoop.st.distances[n]

\* The entry that pop returns next is above the recorded distance of its node.
StalePop ==
    /\ djLoop.pc = "pop"
    /\ djLoop.st.priority_queue # << >>
    /\ LET top == djLoop.st.priority_queue[PopIndex(djLoop.st.priority_queue)] IN
       /\ top.position \in DOMAIN djLoop.st.distances
       /\ top.cost > djLoop.st.distances[top.position]

\* A step that pops such an entry reads no neighbour list, records no
\* distance and pushes nothing.
StalePopRelaxesNothing ==
    (StalePop /\ djLoop' # djLoop) =>
       /\ djLoop'.pc = "pop"
       /\ djLoop'.st.distances = djLoop.st.distances
       /\ djLoop'.st.reads = djLoop.st.reads
       /\ Len(djLoop'.st.priority_queue) = Len(djLoop.st.priority_queue) - 1

\* C16: every call of Dijkstra's run returns (its loop empties the queue),
\* on graphs with cycles and zero-weight edges too; an entry is pushed only
\* when it strictly lowers the recorded distance of its node, no recorded
\* distance increases during a run, and a popped entry above the recorded
\* distance of its node relaxes no edge.
C16_LoopReturns ==
    /\ (djLoop.pc # "idle") ~> (djLoop.pc = "idle" /\ djOut.res.kind = "Ok")
    /\ [][PushLowersDistance /\ DistanceNeverIncreases
            /\ StalePopRelaxesNothing]_vars

\* A run returned from a cycle of zero-weight edges, both nodes reached.
C16_Witness ==
    /\ engine = "DijkstraLoop"
    /\ djLoop.pc = "idle"
    /\ djOut.res.kind = "Ok"
    /\ \E a \in DOMAIN dj, b \in DOMAIN dj :
          /\ a # b
          /\ djOut.start = Some(a)
          /\ \E i \in 1 .. Len(dj[a]) : dj[a][i] = <<b, 0>>
          /\ \E i \in 1 .. Len(dj[b]) : dj[b][i] = <<a, 0>>
          /\ djOut.res.value[a] = 0
          /\ djOut.res.value[b] = 0

====
